---- MODULE Spec2Model ----
(***************************************************************************)
(* MeetupClient (src/unnamed/part_000): the event aggregation and          *)
(* relevance-ranking pipeline  fetch -> geo-enrich -> (optional) score ->   *)
(* sort.  Strings that the code inspects character by character (the       *)
(* completion reply) are sequences of one-character strings.  Optional     *)
(* fields of MeetupEvent are sequences of length 0 (undefined) or 1.       *)
(* JavaScript numbers that can be NaN are records [nan, val].              *)
(***************************************************************************)
EXTENDS Integers, Sequences, FiniteSets, TLC

\* ------------------------------------------------------------------ bounds
MaxEvents == 3
MaxReplyLen == 7

\* --------------------------------------------------------- JavaScript values
Num(n) == [nan |-> FALSE, val |-> n]
NaN == [nan |-> TRUE, val |-> 0]

\* x || 0 on a number: NaN and 0 are falsy
OrZero(x) == IF x.nan THEN 0 ELSE x.val

\* a >= b on numbers: every comparison with NaN is false
JsGe(a, b) == ~a.nan /\ ~b.nan /\ a.val >= b.val

Digits == {"0", "1", "2", "3", "4", "5", "6", "7", "8", "9"}

DigitVal(c) ==
  CASE c = "0" -> 0 [] c = "1" -> 1 [] c = "2" -> 2 [] c = "3" -> 3
    [] c = "4" -> 4 [] c = "5" -> 5 [] c = "6" -> 6 [] c = "7" -> 7
    [] c = "8" -> 8 [] c = "9" -> 9

\* String.prototype.split(sep) for a one-character separator: the pieces
\* between the separators, always at least one piece
RECURSIVE SplitFrom(_, _, _, _)
SplitFrom(s, sep, i, cur) ==
  IF i > Len(s) THEN <<cur>>
  ELSE IF s[i] = sep THEN <<cur>> \o SplitFrom(s, sep, i + 1, <<>>)
  ELSE SplitFrom(s, sep, i + 1, Append(cur, s[i]))

Split(s, sep) == SplitFrom(s, sep, 1, <<>>)

\* Array.prototype.pop(): the last element
Pop(arr) == arr[Len(arr)]

\* parseInt(str, 10): skip leading white space, an optional sign, then the
\* longest run of decimal digits; NaN when there is no digit
RECURSIVE SkipSpace(_)
SkipSpace(s) == IF s # <<>> /\ Head(s) = " " THEN SkipSpace(Tail(s)) ELSE s

RECURSIVE DigitRun(_, _, _)
DigitRun(s, acc, seen) ==
  IF s # <<>> /\ Head(s) \in Digits
  THEN DigitRun(Tail(s), 10 * acc + DigitVal(Head(s)), TRUE)
  ELSE IF seen THEN Num(acc) ELSE NaN

parseInt(str) ==
  LET t == SkipSpace(str)
      neg == t # <<>> /\ Head(t) = "-"
      signed == t # <<>> /\ Head(t) \in {"-", "+"}
      body == IF signed THEN Tail(t) ELSE t
      r == DigitRun(body, 0, FALSE)
  IN IF r.nan THEN NaN ELSE IF neg THEN Num(0 - r.val) ELSE r

\* response.split("{").pop()?.split("}")[0]
MatchText_first(response) == Split(Split(response, "{")[1], "}")[1]

MatchText(response) == Split(Pop(Split(response, "{")), "}")[1]

\* the try block of generateMatchRating: match ? parseInt(match, 10) : 0
\* (parseInt never throws, so the catch branch is unreachable)
ParseRating(response) ==
  LET match == MatchText(response)
  IN IF match # <<>> THEN parseInt(match) ELSE Num(0)


\* ------------------------------------------------------- distance (haversine)
\* Coordinates are taken on the quarter-turn grid, where every term of the
\* haversine formula is exact: sin^2(d/2) is 0, 1/2 or 1 and cos(lat) is 1 or 0.
Lats == {0, 90}
Lons == {0, 180}
Coords == [latitude : Lats, longitude : Lons]

R == 6371

Abs(x) == IF x < 0 THEN 0 - x ELSE x

\* 2 * sin^2(d/2) for d a multiple of 90 degrees
TwiceSinSqHalf(d) == CASE Abs(d) = 0 -> 0 [] Abs(d) = 90 -> 1 [] Abs(d) = 180 -> 2

Cos(lat) == IF lat = 0 THEN 1 ELSE 0

\* R * 2 * atan2(sqrt(a), sqrt(1 - a)) in whole kilometres, for 2a in 0..2:
\* the central angle is 0, pi/2 or pi
ArcKm(twiceA) == CASE twiceA = 0 -> 0 [] twiceA = 1 -> (R * 3142) \div 2000
                   [] twiceA >= 2 -> (R * 3142) \div 1000

calculateDistance(coord1, coord2) ==
  LET dlat == coord2.latitude - coord1.latitude
      dlon == coord2.longitude - coord1.longitude
      twiceA == TwiceSinSqHalf(dlat)
                + Cos(coord1.latitude) * Cos(coord2.latitude) * TwiceSinSqHalf(dlon)
  IN ArcKm(twiceA)

\* ------------------------------------------------------------ the event feed
Titles == <<"e1", "e2", "e3", "e4", "e5">>

Venues == {<<>>, <<[lat |-> 90, lon |-> 0]>>}

\* edges of a GraphQLResponse: the i-th node carries the i-th title and a
\* venue or null
EdgeSeqs ==
  UNION {{[i \in 1..n |-> [title |-> Titles[i], venue |-> v[i]]] : v \in [1..n -> Venues]}
         : n \in 0..MaxEvents}

ErrorTexts == {"Internal Server Error", "Too Many Requests"}

FeedResponses ==
  {[ok |-> TRUE, statusText |-> "OK", edges |-> e] : e \in EdgeSeqs}
  \cup {[ok |-> FALSE, statusText |-> t, edges |-> <<>>] : t \in ErrorTexts}

\* edge.node -> MeetupEvent
MapEdge_locationOnly(node, location) ==
  [name |-> node.title,
   location |-> IF node.venue # <<>>
                THEN <<[latitude |-> node.venue[1].lat, longitude |-> node.venue[1].lon]>>
                ELSE <<>>,
   distance |-> <<>>,
   matchScore |-> <<>>]

MapEdge(node, location) ==
  LET loc == IF node.venue # <<>>
             THEN <<[latitude |-> node.venue[1].lat, longitude |-> node.venue[1].lon]>>
             ELSE <<>>
  IN [name |-> node.title,
      location |-> loc,
      distance |-> IF node.venue # <<>>
                   THEN <<calculateDistance(location, loc[1])>> ELSE <<>>,
      matchScore |-> <<>>]

MapEdges(edges, location) == [i \in 1..Len(edges) |-> MapEdge(edges[i], location)]

\* ----------------------------------------------------- the completion provider
Replies ==
  { <<"{", "8", "5", "}">>,
    <<"{", "4", "0", "}">>,
    <<"{", "1", "5", "0", "}">>,
    <<"{", "-", "5", "}">>,
    <<"{", "4", "0", "}", " ", "{", "8", "5", "}", ".">>,
    <<"n", "o", " ", "f", "i", "t">> }

ScoringResponses ==
  {[ok |-> TRUE, statusText |-> "OK", content |-> c] : c \in Replies}
  \cup {[ok |-> FALSE, statusText |-> "Too Many Requests", content |-> <<>>]}

\* ------------------------------------------------------------------ sorting
\* (a, b) => (b.matchScore || 0) - (a.matchScore || 0)
ScoreOrZero(event) == IF event.matchScore = <<>> THEN 0 ELSE OrZero(event.matchScore[1])

Compare(a, b) == ScoreOrZero(b) - ScoreOrZero(a)

\* number of leading elements of a sorted sequence that stay in front of x
RECURSIVE KeepBefore_unstable(_, _)
KeepBefore_unstable(sorted, x) ==
  IF sorted # <<>> /\ Compare(Head(sorted), x) < 0
  THEN 1 + KeepBefore_unstable(Tail(sorted), x) ELSE 0

RECURSIVE KeepBefore(_, _)
KeepBefore(sorted, x) ==
  IF sorted # <<>> /\ Compare(Head(sorted), x) <= 0
  THEN 1 + KeepBefore(Tail(sorted), x) ELSE 0

Insert(sorted, x) ==
  LET k == KeepBefore(sorted, x)
  IN SubSeq(sorted, 1, k) \o <<x>> \o SubSeq(sorted, k + 1, Len(sorted))

\* Array.prototype.sort with a consistent comparator: a stable sort
RECURSIVE SortFrom(_, _, _)
SortFrom(arr, i, sorted) ==
  IF i > Len(arr) THEN sorted ELSE SortFrom(arr, i + 1, Insert(sorted, arr[i]))

Sort(arr) == SortFrom(arr, 1, <<>>)

\* -------------------------------------------------------------------- state
VARIABLES
  pc,            \* position of the findNearbyEvents call
  params,        \* its argument: location, interests (optional)
  feedFetches,   \* number of requests sent to the event feed
  feedResponse,  \* the feed's response, once it arrived (optional)
  events,        \* the local variable events after the edge mapping
  tasks,         \* one entry per async map callback, in array order
  awaiting,      \* the callbacks whose promises the call is suspended on
  result,        \* the returned array
  error,         \* the message of the thrown Error (optional)
  settled,       \* the callbacks in the order in which their promises settled
  response,      \* generateMatchRating alone: the text it parses
  rating         \* generateMatchRating alone: its return value (optional)

vars == <<pc, params, feedFetches, feedResponse, events, tasks, awaiting,
          result, error, settled, response, rating>>

callVars == <<pc, params, feedFetches, feedResponse, events, tasks, awaiting,
              result, error, settled>>

\* interests?: omitted, the empty string, or a text
InterestsValues == {<<>>, <<"">>, <<"jazz concerts">>}

Params == [location : {[latitude |-> 0, longitude |-> 0]}, interests : InterestsValues]

\* if (interests): undefined and "" are falsy
Truthy_defined(interests) == interests # <<>>

Truthy(interests) == interests # <<>> /\ interests[1] # ""

\* response.ok of the feed request and of a scoring request
FeedOk_always(resp) == TRUE

FeedOk(resp) == resp.ok

ScoringOk_always(resp) == TRUE

ScoringOk(resp) == resp.ok

FeedError(resp) == <<"Meetup API error: ", resp.statusText>>

ScoringError(resp) == <<"OpenRouter API error: ", resp.statusText>>

\* { ...event, matchScore: await generateMatchRating(event, interests) }
WithMatchScore(event, score) == [event EXCEPT !.matchScore = <<score>>]

\* what the call awaits after the k-th of n callbacks has been started: the
\* callbacks run to their first await inside events.map, and only then does
\* the call await Promise.all of all of them
AwaitAfterIssue_each(k, n) == {k}

AwaitAfterIssue(k, n) == IF k = n THEN 1..n ELSE {}

\* Promise.all fulfils when every promise has fulfilled, with the values in
\* array order, and rejects as soon as one rejects
PromiseAllFulfilled(ts) == \A i \in 1..Len(ts) : ts[i].status = "fulfilled"

PromiseAllValues_arrival(ts, evs) ==
  [k \in 1..Len(ts) |-> IF ts[settled[k]].value # <<>> THEN ts[settled[k]].value[1]
                                                       ELSE evs[settled[k]]]

PromiseAllValues(ts, evs) ==
  [i \in 1..Len(ts) |-> IF ts[i].value # <<>> THEN ts[i].value[1] ELSE evs[i]]

\* the call is suspended at an await (or over): continuations may run
Suspended == awaiting # {} \/ pc \in {"awaiting", "returned", "failed"}

Init ==
  /\ pc = "idle"
  /\ params = [location |-> [latitude |-> 0, longitude |-> 0], interests |-> <<>>]
  /\ feedFetches = 0
  /\ feedResponse = <<>>
  /\ events = <<>>
  /\ tasks = <<>>
  /\ awaiting = {}
  /\ result = <<>>
  /\ error = <<>>
  /\ settled = <<>>
  /\ response = <<>>
  /\ rating = <<>>

\* findNearbyEvents(params) up to its first await: the feed request is sent
Call(p) ==
  /\ pc = "idle"
  /\ pc' = "fetching"
  /\ params' = p
  /\ feedFetches' = feedFetches + 1
  /\ UNCHANGED <<feedResponse, events, tasks, awaiting, result, error, settled, response, rating>>

\* the feed answers; the call resumes: status check, edge mapping, and the
\* return of the unscored events when no interests were given
FeedReply(resp) ==
  /\ pc = "fetching"
  /\ feedResponse' = <<resp>>
  /\ IF ~FeedOk(resp)
     THEN /\ pc' = "failed"
          /\ error' = FeedError(resp)
          /\ UNCHANGED <<events, result>>
     ELSE LET evs == MapEdges(resp.edges, params.location)
          IN /\ events' = evs
             /\ error' = error
             /\ IF Truthy(params.interests)
                THEN /\ pc' = IF Len(evs) = 0 THEN "awaiting" ELSE "mapping"
                     /\ result' = result
                ELSE /\ pc' = "returned"
                     /\ result' = evs
  /\ UNCHANGED <<params, feedFetches, tasks, awaiting, settled, response, rating>>

\* events.map: the next async callback runs up to the await of its fetch, so
\* its scoring request is sent
IssueScoring ==
  /\ pc = "mapping"
  /\ \A j \in awaiting : tasks[j].status = "fulfilled"
  /\ Len(tasks) < Len(events)
  /\ LET k == Len(tasks) + 1
     IN /\ tasks' = Append(tasks, [status |-> "inflight", response |-> <<>>, value |-> <<>>])
        /\ awaiting' = AwaitAfterIssue(k, Len(events))
        /\ pc' = IF k = Len(events) THEN "awaiting" ELSE "mapping"
  /\ UNCHANGED <<params, feedFetches, feedResponse, events, result, error, settled, response, rating>>

\* the completion provider answers the i-th scoring request
ScoringReply(i, resp) ==
  /\ i \in 1..Len(tasks)
  /\ tasks[i].status = "inflight"
  /\ tasks' = [tasks EXCEPT ![i].status = "responded", ![i].response = <<resp>>]
  /\ UNCHANGED <<pc, params, feedFetches, feedResponse, events, awaiting, result, error,
                 settled, response, rating>>

\* the i-th callback resumes: openRouterRequest checks the status, then
\* generateMatchRating parses the reply and the callback builds its value
ResumeTask(i) ==
  /\ i \in 1..Len(tasks)
  /\ tasks[i].status = "responded"
  /\ Suspended
  /\ LET resp == tasks[i].response[1]
     IN IF ~ScoringOk(resp)
        THEN tasks' = [tasks EXCEPT ![i].status = "rejected"]
        ELSE tasks' = [tasks EXCEPT
                         ![i].status = "fulfilled",
                         ![i].value = <<WithMatchScore(events[i], ParseRating(resp.content))>>]
  /\ settled' = Append(settled, i)
  /\ UNCHANGED <<pc, params, feedFetches, feedResponse, events, awaiting, result, error,
                 response, rating>>

\* an awaited promise rejected: the await throws and the call fails
PropagateRejection ==
  /\ pc \in {"mapping", "awaiting"}
  /\ \E j \in awaiting : tasks[j].status = "rejected"
  /\ pc' = "failed"
  /\ LET j == CHOOSE j \in awaiting : tasks[j].status = "rejected"
     IN error' = ScoringError(tasks[j].response[1])
  /\ awaiting' = {}
  /\ UNCHANGED <<params, feedFetches, feedResponse, events, tasks, result, settled, response, rating>>

\* Promise.all fulfilled: sort by match score and return
SortAndReturn ==
  /\ pc = "awaiting"
  /\ Len(tasks) = Len(events)
  /\ PromiseAllFulfilled(tasks)
  /\ result' = Sort(PromiseAllValues(tasks, events))
  /\ pc' = "returned"
  /\ awaiting' = {}
  /\ UNCHANGED <<params, feedFetches, feedResponse, events, tasks, error, settled, response, rating>>

Next ==
  \/ \E p \in Params : Call(p)
  \/ \E resp \in FeedResponses : FeedReply(resp)
  \/ IssueScoring
  \/ \E i \in 1..MaxEvents + 1, resp \in ScoringResponses : ScoringReply(i, resp)
  \/ \E i \in 1..MaxEvents + 1 : ResumeTask(i)
  \/ PropagateRejection
  \/ SortAndReturn

Spec == Init /\ [][Next]_vars

\* ------------------------------------------- generateMatchRating on its own
\* every reply text of at most MaxReplyLen characters over this alphabet
Alphabet == {"{", "}", "1", "2", "-"}

AllReplies == UNION {[1..n -> Alphabet] : n \in 0..MaxReplyLen}

ParseInit ==
  /\ pc = "idle"
  /\ params = [location |-> [latitude |-> 0, longitude |-> 0], interests |-> <<>>]
  /\ feedFetches = 0
  /\ feedResponse = <<>>
  /\ events = <<>>
  /\ tasks = <<>>
  /\ awaiting = {}
  /\ result = <<>>
  /\ error = <<>>
  /\ settled = <<>>
  /\ response \in AllReplies
  /\ rating = <<>>

\* lines 134-141 of generateMatchRating, applied to the reply text
GenerateMatchRating ==
  /\ rating = <<>>
  /\ rating' = <<ParseRating(response)>>
  /\ UNCHANGED <<callVars, response>>

ParseNext == GenerateMatchRating

ParseSpec == ParseInit /\ [][ParseNext]_vars

\* ------------------------------------------------------------------- claims
NoInterests == params.interests = <<>> \/ params.interests = <<"">>

Returned == pc = "returned"

RankedReturn == pc = "returned" /\ ~NoInterests

\* position of a returned event in the feed response (titles are distinct)
FeedIndex(event) ==
  CHOOSE i \in 1..Len(feedResponse[1].edges) : feedResponse[1].edges[i].title = event.name

\* a signed decimal literal, and its value read from the right
IsIntLiteral(t) ==
  LET body == IF t # <<>> /\ Head(t) = "-" THEN Tail(t) ELSE t
  IN body # <<>> /\ \A i \in 1..Len(body) : body[i] \in Digits

RECURSIVE DecValue(_)
DecValue(t) ==
  IF t = <<>> THEN 0
  ELSE 10 * DecValue(SubSeq(t, 1, Len(t) - 1)) + DigitVal(t[Len(t)])

LiteralValue(t) ==
  IF Head(t) = "-" THEN 0 - DecValue(Tail(t)) ELSE DecValue(t)

\* the reply contains some {n} with n an integer literal
HasBracketedInt(s) ==
  \E p \in 1..Len(s), q \in 1..Len(s) :
    /\ p < q
    /\ s[p] = "{"
    /\ s[q] = "}"
    /\ IsIntLiteral(SubSeq(s, p + 1, q - 1))

\* the last "{" of the reply is followed by a "}"
LastOpen(s) == CHOOSE p \in 1..Len(s) : s[p] = "{" /\ \A r \in p + 1..Len(s) : s[r] # "{"

HasClosedLastBrace(s) ==
  /\ \E p \in 1..Len(s) : s[p] = "{"
  /\ \E q \in LastOpen(s) + 1..Len(s) : s[q] = "}"

FirstCloseAfter(s, p) ==
  CHOOSE q \in p + 1..Len(s) : s[q] = "}" /\ \A r \in p + 1..q - 1 : s[r] # "}"

LastBracketText(s) == SubSeq(s, LastOpen(s) + 1, FirstCloseAfter(s, LastOpen(s)) - 1)

\* C1: a successful call with non-empty interests returns the events sorted
\* by matchScore descending: result[i].matchScore >= result[i+1].matchScore
\* for every adjacent pair, whatever the provider replied.
C1_SortedDescending ==
  RankedReturn =>
    \A i \in 1..Len(result) - 1 :
      /\ result[i].matchScore # <<>>
      /\ result[i + 1].matchScore # <<>>
      /\ JsGe(result[i].matchScore[1], result[i + 1].matchScore[1])

\* C2: a successful call with non-empty interests returns every event with
\* matchScore set to an integer between 0 and 100, for every reply text.
C2_ScoreRange ==
  RankedReturn =>
    \A i \in 1..Len(result) :
      /\ result[i].matchScore # <<>>
      /\ ~result[i].matchScore[1].nan
      /\ result[i].matchScore[1].val \in 0..100

\* C3: a reply without a bracketed integer scores exactly 0 without an
\* error, and the call still returns every fetched event.
C3_ParseFallback ==
  /\ \A i \in 1..Len(tasks) :
       (/\ tasks[i].status = "fulfilled"
        /\ ~HasBracketedInt(tasks[i].response[1].content))
       => tasks[i].value[1].matchScore = <<Num(0)>>
  /\ RankedReturn => Len(result) = Len(feedResponse[1].edges)

\* C4: the ranking is stable: two returned events with equal matchScore are
\* in the same relative order as in the feed response.
C4_Stable ==
  RankedReturn =>
    \A i \in 1..Len(result), j \in 1..Len(result) :
      (i < j /\ result[i].matchScore = result[j].matchScore)
      => FeedIndex(result[i]) < FeedIndex(result[j])

C4_Witness ==
  /\ RankedReturn
  /\ Len(result) = 3
  /\ result[1].name = "e3"
  /\ result[2].name = "e1"
  /\ result[2].matchScore = result[3].matchScore

\* C5: a non-success answer of the feed makes the call fail with the fetch
\* error carrying the status text; nothing is returned, the fetch is not
\* repeated and no scoring request is sent.
C5_FetchFailure ==
  (feedResponse # <<>> /\ ~feedResponse[1].ok) =>
    /\ pc = "failed"
    /\ error = <<"Meetup API error: ", feedResponse[1].statusText>>
    /\ result = <<>>
    /\ feedFetches = 1
    /\ tasks = <<>>

C5_Witness ==
  /\ pc = "failed"
  /\ feedResponse # <<>>
  /\ ~feedResponse[1].ok
  /\ params.interests = <<"jazz concerts">>

\* C6: once the provider answered one scoring request with a non-success
\* status, the call never returns a list, however many other scoring calls
\* succeeded and in whatever order the replies came.
C6_ScoringFailureFatal ==
  (\E i \in 1..Len(tasks) : tasks[i].response # <<>> /\ ~tasks[i].response[1].ok)
  => pc # "returned" /\ result = <<>>

C6_Witness ==
  /\ pc = "failed"
  /\ \E i \in 1..Len(tasks) : tasks[i].status = "rejected"
  /\ \E i \in 1..Len(tasks) : tasks[i].status = "fulfilled"
  /\ \A i \in 1..Len(tasks) : tasks[i].status \in {"rejected", "fulfilled"}
  /\ tasks[1].status = "fulfilled"

\* C7: with interests omitted or empty no scoring request is sent, no
\* returned event has matchScore, and the result is in feed order.
C7_NoInterestsPassthrough ==
  NoInterests =>
    /\ tasks = <<>>
    /\ Returned =>
         /\ Len(result) = Len(feedResponse[1].edges)
         /\ \A i \in 1..Len(result) :
              /\ result[i].matchScore = <<>>
              /\ result[i].name = feedResponse[1].edges[i].title

C7_Witness ==
  /\ Returned
  /\ params.interests = <<"">>
  /\ Len(result) >= 2

\* C8: every returned event has location defined iff distance defined, and
\* both exactly when its feed node carried a venue, with or without scoring.
C8_LocationIffDistance ==
  Returned =>
    \A i \in 1..Len(result) :
      /\ (result[i].location # <<>>) <=> (result[i].distance # <<>>)
      /\ (result[i].location # <<>>)
           <=> (feedResponse[1].edges[FeedIndex(result[i])].venue # <<>>)

C8_Witness ==
  /\ RankedReturn
  /\ \E i \in 1..Len(result) : result[i].location # <<>> /\ result[i].distance # <<>>
  /\ \E i \in 1..Len(result) : result[i].location = <<>> /\ result[i].distance = <<>>

\* C9: all N scoring requests are sent before the call handles any reply,
\* and the call returns only after all N scoring calls have resolved.
C9_FanOutThenJoin ==
  /\ (\E i \in 1..Len(tasks) : tasks[i].status \in {"fulfilled", "rejected"})
     => Len(tasks) = Len(events)
  /\ RankedReturn =>
       /\ Len(tasks) = Len(feedResponse[1].edges)
       /\ \A i \in 1..Len(tasks) : tasks[i].status = "fulfilled"

C9_Witness ==
  /\ Len(events) >= 2
  /\ Len(tasks) = Len(events)
  /\ \A i \in 1..Len(tasks) : tasks[i].status = "inflight"

\* C10: the parsed score is the integer written between the last "{" of
\* the reply and the first "}" after it; earlier brackets and the text
\* after that "}" do not matter.
C10_LastBracketWins ==
  (/\ rating # <<>>
   /\ HasClosedLastBrace(response)
   /\ IsIntLiteral(LastBracketText(response)))
  => rating[1] = Num(LiteralValue(LastBracketText(response)))

C10_Witness ==
  /\ response = <<"{", "1", "}", "{", "2", "}", "-">>
  /\ rating = <<Num(2)>>

\* the comparator's key of a returned event's score: matchScore || 0
RankKey(event) == IF event.matchScore[1].nan THEN 0 ELSE event.matchScore[1].val

\* C11: whatever the order in which the scoring callbacks settled, a
\* successful ranked call returns exactly one entry per fetched event, each
\* with the score parsed from the reply to its own request, so the returned
\* sequence is fixed by the feed response and the replies alone: descending
\* by the comparator's key and in feed order within equal keys.
C11_ArrivalOrderIndependent ==
  RankedReturn =>
    /\ Len(result) = Len(feedResponse[1].edges)
    /\ \A i \in 1..Len(feedResponse[1].edges) :
         Cardinality({k \in 1..Len(result) :
                        result[k].name = feedResponse[1].edges[i].title}) = 1
    /\ \A k \in 1..Len(result) :
         LET i == FeedIndex(result[k])
         IN /\ result[k].matchScore = <<ParseRating(tasks[i].response[1].content)>>
            /\ result[k].location = events[i].location
            /\ result[k].distance = events[i].distance
    /\ \A k \in 1..Len(result), l \in 1..Len(result) :
         k < l =>
           \/ RankKey(result[k]) > RankKey(result[l])
           \/ /\ RankKey(result[k]) = RankKey(result[l])
              /\ FeedIndex(result[k]) < FeedIndex(result[l])

C11_Witness ==
  /\ RankedReturn
  /\ Len(result) = 3
  /\ settled = <<3, 2, 1>>
  /\ result[1].name = "e2"
  /\ result[2].name = "e1"
  /\ result[3].name = "e3"
  /\ RankKey(result[2]) = RankKey(result[3])

====
